---------------------------- MODULE Spec2Model ----------------------------
(***************************************************************************)
(* Model of cat-stat-analysis: the Chi-Square / Cramer's V analysis of two *)
(* categorical columns and the files it writes.                            *)
(*                                                                         *)
(* Two implementations are modelled, selected by the variable impl:        *)
(*   "cat_stat"          src/cat_stat/cat_stat.py    get_analysis          *)
(*   "cat-stat-analysis" src/cat-stat-analysis.py    statistical_analysis  *)
(*                                                                         *)
(* Numbers.  The code computes in IEEE doubles; the model computes the     *)
(* same expressions in exact rational arithmetic.  A rational is a pair    *)
(* <<n, d>> in lowest terms with d > 0; NaN (the result of 0.0/0) is the   *)
(* pair <<0, 0>>.  cramers_v = sqrt(q) is carried as its square q, and a   *)
(* comparison cramers_v < t (t >= 0) is decided as q < t^2.  The p-value   *)
(* chi2.sf(chi2, dof) is carried as the pair of its arguments, and         *)
(* p < 0.05 is decided by the 0.05 critical value of the distribution.     *)
(***************************************************************************)
EXTENDS Integers, Sequences, FiniteSets

\* ------------------------------------------------------------ bounds ----
\* Largest number of rows the caller puts into the DataFrame row by row.
MaxRows == 4
\* Largest number of analysis calls in one run of the program.
MaxCalls == 2

\* ------------------------------------------------------- value domains --
\* Category codes of the two columns; pandas sorts the distinct values, the
\* codes are in that order (use_case.py: 1 = 'Female' < 2 = 'Male', ...).
Col1Values == {1, 2, 3}
Col2Values == {1, 2, 3}
Cells == Col1Values \X Col2Values

\* ---------------------------------------------------------- rationals ---
Abs(x) == IF x < 0 THEN -x ELSE x

Max(a, b) == IF a >= b THEN a ELSE b

Min(a, b) == IF a <= b THEN a ELSE b

RECURSIVE GCD(_, _)
GCD(a, b) == IF b = 0 THEN a ELSE GCD(b, a % b)

NaN == <<0, 0>>

IsNaN(x) == x[2] = 0

\* n / d as a double division does it: 0.0 / 0 is nan.
Rat(n, d) ==
    IF d = 0 THEN NaN
    ELSE LET g == GCD(Abs(n), Abs(d))
             s == IF d < 0 THEN -1 ELSE 1
         IN  <<(s * n) \div g, (s * d) \div g>>

RatAdd(x, y) == Rat(x[1] * y[2] + y[1] * x[2], x[2] * y[2])

\* Comparisons with nan are False, as in IEEE arithmetic.
RatLess(x, y) == ~IsNaN(x) /\ ~IsNaN(y) /\ x[1] * y[2] < y[1] * x[2]

RatLeq(x, y) == ~IsNaN(x) /\ ~IsNaN(y) /\ x[1] * y[2] <= y[1] * x[2]

RECURSIVE SumSeq(_)
SumSeq(s) == IF s = << >> THEN 0 ELSE s[1] + SumSeq(Tail(s))

RECURSIVE RatSumSeq(_)
RatSumSeq(s) == IF s = << >> THEN <<0, 1>> ELSE RatAdd(s[1], RatSumSeq(Tail(s)))

RECURSIVE Flatten(_)
Flatten(ss) == IF ss = << >> THEN << >> ELSE ss[1] \o Flatten(Tail(ss))

RECURSIVE SortedSeq(_)
SortedSeq(S) ==
    IF S = {} THEN << >>
    ELSE LET m == CHOOSE x \in S : \A y \in S : x <= y
         IN  <<m>> \o SortedSeq(S \ {m})

\* ------------------------------------------------------- DataFrame ------
\* A DataFrame with the two analysed columns is the multiset of its rows:
\* df[<<a, b>>] is the number of rows whose col1 value is a and col2 value b.
EmptyDf == [c \in Cells |-> 0]

RECURSIVE SumCells(_, _)
SumCells(d, S) ==
    IF S = {} THEN 0
    ELSE LET c == CHOOSE x \in S : TRUE IN d[c] + SumCells(d, S \ {c})

\* len(df)
DfRows(d) == SumCells(d, Cells)

\* pd.crosstab(df[col1], df[col2]): one row per distinct col1 value present,
\* one column per distinct col2 value present, both sorted; an empty frame
\* gives the empty 0 x 0 table.  values[i][j] is the count of the pair.
Crosstab(d) ==
    LET index   == SortedSeq({a \in Col1Values : \E b \in Col2Values : d[<<a, b>>] > 0})
        columns == SortedSeq({b \in Col2Values : \E a \in Col1Values : d[<<a, b>>] > 0})
    IN  [index   |-> index,
         columns |-> columns,
         values  |-> [i \in 1..Len(index) |->
                        [j \in 1..Len(columns) |-> d[<<index[i], columns[j]>>]]]]

\* contingency_table.shape
NRows(t) == Len(t.index)

NCols(t) == Len(t.columns)

\* pivot_table.sum(axis=1): the row totals
RowTotal(t, i) == SumSeq(t.values[i])

\* pivot_table.sum(axis=0): the column totals
ColTotal(t, j) == SumSeq([i \in 1..NRows(t) |-> t.values[i][j]])

\* contingency_table.sum().sum()
GrandTotal(t) == SumSeq([i \in 1..NRows(t) |-> RowTotal(t, i)])

\* --------------------------------------------- stats.chi2_contingency ---
\* One cell's term (observed - expected)^2 / expected with
\* expected = r * c / n, after scipy's continuity correction when dof = 1:
\*     diff = expected - observed
\*     observed = observed + min(0.5, |diff|) * sign(diff)
\* so that |observed - expected| becomes max(|diff| - 1/2, 0).
Chi2Term(o, r, c, n, yates) ==
    IF yates
    THEN LET a == Max(2 * Abs(n * o - r * c) - n, 0) IN Rat(a * a, 4 * n * r * c)
    ELSE Rat((n * o - r * c) * (n * o - r * c), n * r * c)

\* The statistic, the p-value and the degrees of freedom of a non-empty
\* table: dof = expected.size - sum(expected.shape) + expected.ndim - 1;
\* dof = 0 gives chi2 = 0.0 and p = 1.0 without any sum.
Chi2Result(t) ==
    LET R   == NRows(t)
        C   == NCols(t)
        n   == GrandTotal(t)
        dof == R * C - R - C + 1
        terms == [i \in 1..R |-> [j \in 1..C |->
                    Chi2Term(t.values[i][j], RowTotal(t, i), ColTotal(t, j), n, dof = 1)]]
    IN  IF dof = 0
        THEN [raises |-> "none", chi2_stat |-> <<0, 1>>, p_val |-> <<<<0, 1>>, 0>>, dof |-> 0]
        ELSE LET chi2 == RatSumSeq(Flatten(terms))
             IN  [raises |-> "none", chi2_stat |-> chi2, p_val |-> <<chi2, dof>>, dof |-> dof]

\* A faulty variant: chi2_contingency without its size-0 test.
Chi2ContingencyNoSizeCheck(t) == Chi2Result(t)

\* stats.chi2_contingency(contingency_table) with its defaults
\* (correction=True, lambda_=None).  raises is the exception it raises:
\* "No data; `observed` has size 0." for the empty table.  (A zero expected
\* frequency raises too; no table of Crosstab has a zero row or column.)
Chi2Contingency(t) ==
    IF NRows(t) * NCols(t) = 0
    THEN [raises |-> "ValueError", chi2_stat |-> NaN, p_val |-> <<NaN, 0>>, dof |-> 0]
    ELSE Chi2Result(t)

\* The 0.05 critical values of the chi-square distribution for dof = 1..9
\* (to 1e-4): chi2.sf(x, dof) < 0.05 exactly when x exceeds the value.
Chi2Critical05 ==
    << <<38415, 10000>>, <<59915, 10000>>, <<78147, 10000>>,
       <<94877, 10000>>, <<110705, 10000>>, <<125916, 10000>>,
       <<140671, 10000>>, <<155073, 10000>>, <<169190, 10000>> >>

\* p_val < 0.05, p_val = chi2.sf(chi2, dof) carried as <<chi2, dof>>;
\* dof = 0 is p = 1.0.
PValBelowAlpha(p) ==
    /\ p[2] >= 1
    /\ RatLess(Chi2Critical05[p[2]], p[1])

\* ------------------------------------------------------ Cramer's V ------
\* A faulty variant: the factor min(R, C) - 1 left out of the denominator.
CramersVNoDofFactor(t, chi2) == Rat(chi2[1], chi2[2] * GrandTotal(t))

\* np.sqrt(chi2_stat / (n * (min(contingency_table.shape) - 1))), carried
\* as its square.  0.0 / 0 is nan (numpy warns, it does not raise).
CramersV(t, chi2) ==
    Rat(chi2[1], chi2[2] * (GrandTotal(t) * (Min(NRows(t), NCols(t)) - 1)))

\* cramers_v < num/den for a threshold num/den >= 0; False for nan.
CramersVLess(v, num, den) == RatLess(v, <<num * num, den * den>>)

Chi2Conclusion(p) == IF PValBelowAlpha(p) THEN "related" ELSE "not related"

CramersConclusion(v) ==
    IF CramersVLess(v, 1, 10) THEN "negligible"
    ELSE IF CramersVLess(v, 3, 10) THEN "weak"
    ELSE IF CramersVLess(v, 5, 10) THEN "moderate"
    ELSE "strong"

\* ------------------------------------------------------ file names -----
\* Text is a sequence of one-character strings.
WordChars ==
    {"a", "b", "c", "d", "e", "f", "g", "h", "i", "j", "k", "l", "m",
     "n", "o", "p", "q", "r", "s", "t", "u", "v", "w", "x", "y", "z",
     "A", "B", "C", "D", "E", "F", "G", "H", "I", "J", "K", "L", "M",
     "N", "O", "P", "Q", "R", "S", "T", "U", "V", "W", "X", "Y", "Z",
     "0", "1", "2", "3", "4", "5", "6", "7", "8", "9", "_"}

RECURSIVE DropNonWord(_)
DropNonWord(text) ==
    IF text = << >> \/ Head(text) \in WordChars THEN text
    ELSE DropNonWord(Tail(text))

\* re.sub(r'\W+', '_', text): each maximal run of non-word characters
\* becomes one underscore.
RECURSIVE sanitize_filename(_)
sanitize_filename(text) ==
    IF text = << >> THEN << >>
    ELSE IF Head(text) \in WordChars
         THEN <<Head(text)>> \o sanitize_filename(Tail(text))
         ELSE <<"_">> \o sanitize_filename(DropNonWord(text))

md_filename(col1, col2) ==
    <<"stat_analysis_">> \o sanitize_filename(col1) \o <<"_vs_">>
        \o sanitize_filename(col2) \o <<".md">>

png_filename(col1, col2) ==
    <<"stacked_bar_">> \o sanitize_filename(col1) \o <<"_vs_">>
        \o sanitize_filename(col2) \o <<".png">>

pdf_filename(col1, col2) ==
    <<"stat_analysis_">> \o sanitize_filename(col1) \o <<"_vs_">>
        \o sanitize_filename(col2) \o <<".pdf">>

\* ------------------------------------------------------ file system -----
\* The working directory: a function from the names of the files that exist
\* to their contents; a content is the sequence of the chunks written.
NoFiles == [f \in {} |-> << >>]

\* A faulty variant: the file opened with mode "a" instead of "w".
OpenAppendWrite(files, name, content) ==
    [f \in DOMAIN files \cup {name} |->
        IF f = name
        THEN (IF name \in DOMAIN files THEN files[name] ELSE << >>) \o <<content>>
        ELSE files[f]]

\* with open(name, "w") as f: f.write(content)   -- creates or truncates
OpenWrite(files, name, content) ==
    [f \in DOMAIN files \cup {name} |-> IF f = name THEN <<content>> ELSE files[f]]

\* ------------------------------------------------- Markdown report ------
\* report_md as its lines; a line is its indentation and its text, the
\* formatted numbers being carried as the value under its format.
Line(indent, text) == [indent |-> indent, text |-> text]

ReportMd(im, col1, col2, test, v, chi2_concl, v_concl) ==
    LET ind == IF im = "cat_stat" THEN 0 ELSE 4
        pre == IF im = "cat_stat" THEN "" ELSE "->"
    IN  << Line(ind, <<"# Statistical Analysis",
                       IF im = "cat_stat" THEN ":" ELSE "of", col1, "vs", col2>>),
           Line(ind, <<"## 1 Chi-Square Test for Independence">>),
           Line(ind, <<"- Chi-Square Statistic", ".4f", test.chi2_stat>>),
           Line(ind, <<"- p-value", ".4e", test.p_val>>),
           Line(ind, <<"- Degrees of Freedom", test.dof>>),
           Line(ind, <<pre, "Conclusion", chi2_concl, col1, col2>>),
           Line(ind, <<"## 2 Cramer's V (Strength of Association)">>),
           Line(ind, <<"- Cramer's V", ".4f", "sqrt", v>>),
           Line(ind, <<"->", "Conclusion", v_concl>>),
           Line(ind, <<IF im = "cat_stat" THEN "## 3 Visualization"
                       ELSE "## 3 Stacked Percentage Bar Chart">>),
           Line(ind, <<"![Stacked Bar Chart]", png_filename(col1, col2)>>) >>

\* text.strip()
clean_text(line) == Line(0, line.text)

\* ------------------------------------------ plot_stacked_percentage_bar -
\* bar.get_x() of the bar of row r (r = 0, 1, ...), in quarters: pandas
\* draws the bar of row r centred on r with width 0.5, so get_x() = r - 0.25.
BarX4(r) == 4 * r - 1

\* int(x) for x = x4 / 4: truncation towards zero.
PyInt4(x4) == IF x4 >= 0 THEN x4 \div 4 ELSE -((-x4) \div 4)

\* round(x) for x = x4 / 4: to the nearest integer, halves to the even one.
PyRound4(x4) ==
    LET f == x4 \div 4
        r == x4 % 4
    IN  IF r < 2 THEN f
        ELSE IF r > 2 THEN f + 1
        ELSE IF f % 2 = 0 THEN f ELSE f + 1

\* The row the label is looked up in, for the bar of row r:
\*   cat_stat.py           int(round(bar.get_x()))
\*   cat-stat-analysis.py  int(bar.get_x())
LabelRow(im, r) ==
    IF im = "cat_stat" THEN PyRound4(BarX4(r)) ELSE PyInt4(BarX4(r))

\* f'{percent:.1f}%' as the number of tenths, halves to even.
Fmt1f(x) ==
    LET y == 10 * x[1]
        f == y \div x[2]
        r == y % x[2]
    IN  IF 2 * r < x[2] THEN f
        ELSE IF 2 * r > x[2] THEN f + 1
        ELSE IF f % 2 = 0 THEN f ELSE f + 1

\* pivot_table_percentage: each cell as a percentage of the grand total.
PivotTablePercentage(t) ==
    [i \in 1..NRows(t) |-> [j \in 1..NCols(t) |->
        Rat(100 * t.values[i][j], GrandTotal(t))]]

\* percentage_labels: each cell as a percentage of its row total.
PercentageLabels(t) ==
    [i \in 1..NRows(t) |-> [j \in 1..NCols(t) |->
        Rat(100 * t.values[i][j], RowTotal(t, i))]]

\* percentage_labels.iloc[k, i] for a 0-based row k: a negative k counts
\* from the end, a k outside the table is an IndexError.
ILocRow(t, k) ==
    IF k >= NRows(t) \/ k < -NRows(t) THEN 0
    ELSE IF k < 0 THEN k + NRows(t) + 1 ELSE k + 1

\* The text drawn in the segment of row i, column j (1-based); <<"none">>
\* when no text is drawn, <<"IndexError">> when the lookup raises.
SegmentText(im, t, i, j) ==
    LET height == PivotTablePercentage(t)[i][j]
        row    == ILocRow(t, LabelRow(im, i - 1))
    IN  IF ~RatLess(<<0, 1>>, height) THEN <<"none">>
        ELSE IF row = 0 THEN <<"IndexError">>
        ELSE <<"text", Fmt1f(PercentageLabels(t)[row][j])>>

\* The figure plot_stacked_percentage_bar draws for df: the segment heights,
\* and the texts (cat_stat.py catches the IndexError and draws no text).
Figure(im, d, title) ==
    LET t == Crosstab(d)
    IN  [title   |-> title,
         heights |-> PivotTablePercentage(t),
         texts   |-> [i \in 1..NRows(t) |-> [j \in 1..NCols(t) |->
                        IF im = "cat_stat" /\ SegmentText(im, t, i, j) = <<"IndexError">>
                        THEN <<"none">>
                        ELSE SegmentText(im, t, i, j)]]]

\* Whether drawing the texts raises (cat-stat-analysis.py has no try).
FigureRaises(im, d) ==
    LET t == Crosstab(d)
    IN  /\ im # "cat_stat"
        /\ \E i \in 1..NRows(t), j \in 1..NCols(t) :
              SegmentText(im, t, i, j) = <<"IndexError">>

\* --------------------------------------------------------- inputs ------
Impls == {"cat_stat", "cat-stat-analysis"}

Gender == <<"G", "e", "n", "d", "e", "r">>

Purchase == <<"P", "u", "r", "c", "h", "a", "s", "e">>

AgeGroup == <<"A", "g", "e", " ", "-", "G", "r", "o", "u", "p">>

\* The column pairs analysed: use_case.py's, and one whose name needs
\* sanitizing.
ColumnPairs == {<<Gender, Purchase>>, <<AgeGroup, Purchase>>}

\* The DataFrame whose 2 x 2 contingency table is tab.
DfOfTable(tab) ==
    [c \in Cells |-> IF c[1] <= 2 /\ c[2] <= 2 THEN tab[c[1]][c[2]] ELSE 0]

\* use_case.py's data: Female (No 4, Yes 1), Male (No 0, Yes 5); and the
\* two 2 x 2 scenario tables of perfect and of no association.
UseCaseDf == DfOfTable(<< <<4, 1>>, <<0, 5>> >>)

ScenarioDfs ==
    {UseCaseDf, DfOfTable(<< <<10, 0>>, <<0, 10>> >>), DfOfTable(<< <<5, 5>>, <<5, 5>> >>)}

\* The module-level names of cat-stat-analysis.py; generate_pdf_report
\* calls clean_text, which only cat_stat.py defines.
PdfModuleGlobals ==
    {"pd", "np", "stats", "plt", "FPDF", "re", "sanitize_filename",
     "statistical_analysis", "plot_stacked_percentage_bar", "generate_pdf_report"}

\* A working directory that still holds the report of an earlier run.
StaleFiles(col1, col2) ==
    OpenWrite(NoFiles, md_filename(col1, col2), <<Line(0, <<"# old report">>)>>)

\* ---------------------------------------------------------- state -------
VARIABLES
    impl,               \* which implementation this program run uses
    cols,               \* <<col1, col2>>: the column names passed
    df,                 \* the DataFrame
    pc,                 \* where the current call is; "idle" between calls
    calls,              \* number of calls started
    files,              \* the working directory
    open_figures,       \* matplotlib's open figures (pyplot's global state)
    contingency_table,  \* locals of the call, kept after it returns
    chi2_test,          \*   chi2_stat, p_val, dof (and what the test raised)
    cramers_v,
    chi2_conclusion,
    cramers_conclusion,
    report_md,
    outcome,            \* how the last call ended: "ok" or the exception
    written,            \* names of the files the current/last call wrote
    prev                \* outcome, files and results as the previous call left them

vars == <<impl, cols, df, pc, calls, files, open_figures, contingency_table,
          chi2_test, cramers_v, chi2_conclusion, cramers_conclusion, report_md,
          outcome, written, prev>>

locals == <<contingency_table, chi2_test, cramers_v, chi2_conclusion,
            cramers_conclusion, report_md>>

NoTest == [raises |-> "none", chi2_stat |-> NaN, p_val |-> <<NaN, 0>>, dof |-> 0]

Snapshot ==
    [outcome |-> outcome, files |-> files, chi2_test |-> chi2_test,
     cramers_v |-> cramers_v, report_md |-> report_md]

Init ==
    /\ impl \in Impls
    /\ cols \in ColumnPairs
    /\ df \in {EmptyDf} \cup ScenarioDfs
    /\ pc = "idle"
    /\ calls = 0
    /\ files \in {NoFiles, StaleFiles(cols[1], cols[2])}
    /\ open_figures = 0
    /\ contingency_table = Crosstab(EmptyDf)
    /\ chi2_test = NoTest
    /\ cramers_v = NaN
    /\ chi2_conclusion = ""
    /\ cramers_conclusion = ""
    /\ report_md = << >>
    /\ outcome = "none"
    /\ written = {}
    /\ prev = [outcome |-> "none", files |-> files, chi2_test |-> NoTest,
               cramers_v |-> NaN, report_md |-> << >>]

\* The caller builds the DataFrame, one row <<a, b>> at a time, before it
\* calls the analysis.
AddRow(a, b) ==
    /\ pc = "idle"
    /\ calls = 0
    /\ DfRows(df) < MaxRows
    /\ df' = [df EXCEPT ![<<a, b>>] = @ + 1]
    /\ UNCHANGED <<impl, cols, pc, calls, files, open_figures, locals, outcome,
                   written, prev>>

\* get_analysis(df, col1, col2) / statistical_analysis(df, col1, col2) is
\* called: the file names are derived and the contingency table is built.
Call ==
    /\ pc = "idle"
    /\ calls < MaxCalls
    /\ calls' = calls + 1
    /\ prev' = Snapshot
    /\ contingency_table' = Crosstab(df)
    /\ chi2_test' = NoTest
    /\ cramers_v' = NaN
    /\ chi2_conclusion' = ""
    /\ cramers_conclusion' = ""
    /\ report_md' = << >>
    /\ outcome' = "none"
    /\ written' = {}
    /\ pc' = "chi2"
    /\ UNCHANGED <<impl, cols, df, files, open_figures>>

\* chi2_stat, p_val, dof, expected = stats.chi2_contingency(contingency_table)
Chi2Test ==
    /\ pc = "chi2"
    /\ chi2_test' = Chi2Contingency(contingency_table)
    /\ IF chi2_test'.raises # "none"
       THEN pc' = "idle" /\ outcome' = chi2_test'.raises
       ELSE pc' = "interpret" /\ outcome' = outcome
    /\ UNCHANGED <<impl, cols, df, calls, files, open_figures, contingency_table,
                   cramers_v, chi2_conclusion, cramers_conclusion, report_md,
                   written, prev>>

\* Cramer's V, the two conclusions and the report text.
Interpret ==
    /\ pc = "interpret"
    /\ cramers_v' = CramersV(contingency_table, chi2_test.chi2_stat)
    /\ chi2_conclusion' = Chi2Conclusion(chi2_test.p_val)
    /\ cramers_conclusion' = CramersConclusion(cramers_v')
    /\ report_md' = ReportMd(impl, cols[1], cols[2], chi2_test, cramers_v',
                             chi2_conclusion', cramers_conclusion')
    /\ pc' = "write_md"
    /\ UNCHANGED <<impl, cols, df, calls, files, open_figures, contingency_table,
                   chi2_test, outcome, written, prev>>

\* with open(md_filename, "w", encoding="utf-8") as f: f.write(report_md)
\* io_ok = FALSE: the open fails with an OSError, which propagates.
WriteMarkdown ==
    /\ pc = "write_md"
    /\ \E io_ok \in BOOLEAN :
          IF io_ok
          THEN /\ files' = OpenWrite(files, md_filename(cols[1], cols[2]), report_md)
               /\ written' = written \cup {md_filename(cols[1], cols[2])}
               /\ pc' = "plot"
               /\ outcome' = outcome
          ELSE /\ pc' = "idle"
               /\ outcome' = "OSError"
               /\ UNCHANGED <<files, written>>
    /\ UNCHANGED <<impl, cols, df, calls, open_figures, locals, prev>>

\* plot_stacked_percentage_bar(df, col1, col2, title, png_filename): a new
\* figure is drawn and saved; cat_stat.py then closes it (plt.close()),
\* cat-stat-analysis.py shows it (plt.show()) and leaves it open.  An
\* exception (an uncaught IndexError of the label lookup, an OSError of
\* savefig) propagates and leaves the figure open.
Plot ==
    /\ pc = "plot"
    /\ \E io_ok \in BOOLEAN :
          IF FigureRaises(impl, df)
          THEN /\ pc' = "idle"
               /\ outcome' = "IndexError"
               /\ open_figures' = open_figures + 1
               /\ UNCHANGED <<files, written>>
          ELSE IF ~io_ok
          THEN /\ pc' = "idle"
               /\ outcome' = "OSError"
               /\ open_figures' = open_figures + 1
               /\ UNCHANGED <<files, written>>
          ELSE /\ files' = OpenWrite(files, png_filename(cols[1], cols[2]),
                                     Figure(impl, df, <<cols[1], "vs", cols[2]>>))
               /\ written' = written \cup {png_filename(cols[1], cols[2])}
               /\ open_figures' = IF impl = "cat_stat" THEN open_figures
                                  ELSE open_figures + 1
               /\ IF impl = "cat_stat"
                  THEN pc' = "idle" /\ outcome' = "ok"
                  ELSE pc' = "pdf" /\ outcome' = outcome
    /\ UNCHANGED <<impl, cols, df, calls, locals, prev>>

\* generate_pdf_report(md_filename, png_filename, pdf_filename): one cell per
\* line of the Markdown file, cleaned by clean_text, then the image; the
\* first line read raises NameError when clean_text is no name of the module.
GeneratePdfReport ==
    /\ pc = "pdf"
    /\ LET md    == md_filename(cols[1], cols[2])
           lines == Flatten(files[md])
       IN  \E io_ok \in BOOLEAN :
             IF lines # << >> /\ "clean_text" \notin PdfModuleGlobals
             THEN /\ outcome' = "NameError"
                  /\ UNCHANGED <<files, written>>
             ELSE IF ~io_ok
             THEN /\ outcome' = "OSError"
                  /\ UNCHANGED <<files, written>>
             ELSE /\ files' = OpenWrite(files, pdf_filename(cols[1], cols[2]),
                        [cells |-> [k \in 1..Len(lines) |-> clean_text(lines[k])],
                         image |-> files[png_filename(cols[1], cols[2])]])
                  /\ written' = written \cup {pdf_filename(cols[1], cols[2])}
                  /\ outcome' = "ok"
    /\ pc' = "idle"
    /\ UNCHANGED <<impl, cols, df, calls, open_figures, locals, prev>>

Next ==
    \/ \E a \in Col1Values, b \in Col2Values : AddRow(a, b)
    \/ Call
    \/ Chi2Test
    \/ Interpret
    \/ WriteMarkdown
    \/ Plot
    \/ GeneratePdfReport

Spec == Init /\ [][Next]_vars

\* ---------------------------------------------------- state predicates -
\* The last call has returned or raised.
Returned == pc = "idle" /\ calls >= 1

\* chi2_contingency has returned in the current/last call.
Chi2Computed == calls >= 1 /\ pc # "chi2" /\ chi2_test.raises = "none"

\* cramers_v and the conclusions are computed in the current/last call.
Interpreted == Chi2Computed /\ pc # "interpret"

\* R >= 2 and C >= 2 (every row and column total of a crosstab is > 0).
NonDegenerate(t) == NRows(t) >= 2 /\ NCols(t) >= 2

\* Pearson's statistic: the sum over the cells of
\* (observed - expected)^2 / expected, expected = row * col / N.
PearsonChi2(t) ==
    RatSumSeq(Flatten([i \in 1..NRows(t) |-> [j \in 1..NCols(t) |->
        Chi2Term(t.values[i][j], RowTotal(t, i), ColTotal(t, j), GrandTotal(t), FALSE)]]))

\* The table is [[k, 0], [0, k]] for some k >= 1.
PerfectTwoByTwo(t) ==
    /\ NRows(t) = 2
    /\ NCols(t) = 2
    /\ t.values[1][2] = 0
    /\ t.values[2][1] = 0
    /\ t.values[1][1] = t.values[2][2]

\* ------------------------------------------------------------ claims ----

\* C1: for every table with R >= 2 and C >= 2 (2 x 2 included) the chi2
\* statistic the analysis reports, and feeds into Cramer's V, is the plain
\* Pearson sum.
C1_Chi2IsPearsonSum ==
    (Chi2Computed /\ NonDegenerate(contingency_table)) =>
        /\ chi2_test.chi2_stat = PearsonChi2(contingency_table)
        /\ Interpreted =>
              cramers_v = CramersV(contingency_table, PearsonChi2(contingency_table))

\* C2: for the perfectly associated table [[k, 0], [0, k]] the analysis
\* computes cramers_v = 1.0 and selects the 'strong' conclusion.
C2_PerfectAssociationIsOne ==
    (Interpreted /\ PerfectTwoByTwo(contingency_table)) =>
        /\ cramers_v = <<1, 1>>
        /\ cramers_conclusion = "strong"

\* C3: with fewer than 2 distinct values in a column (and at least one row)
\* the call ends in an error and writes no file; it never reaches the
\* report-writing step.
C3_DegenerateTableIsRejected ==
    (calls >= 1 /\ DfRows(df) >= 1 /\ ~NonDegenerate(contingency_table)) =>
        /\ pc \notin {"write_md", "plot", "pdf"}
        /\ written = {}
        /\ Returned => outcome \notin {"ok", "none"}

\* C4: with no rows (N = 0) the call ends in an error before any output:
\* the files after the call are the files before it.
C4_EmptyInputWritesNothing ==
    (calls >= 1 /\ DfRows(df) = 0) =>
        /\ pc \in {"chi2", "idle"}
        /\ written = {}
        /\ files = prev.files
        /\ Returned => outcome = "ValueError"

C4_Witness ==
    /\ Returned
    /\ DfRows(df) = 0
    /\ outcome = "ValueError"
    /\ files = StaleFiles(cols[1], cols[2])

\* C5: when a step of a call fails, no file that call wrote remains.
C5_NoFileLeftAfterFailure ==
    (Returned /\ outcome # "ok") => written = {}

\* C6: the PDF variant, on valid input and without an I/O failure,
\* completes having written the .md, the .png and the .pdf, the PDF holding
\* the Markdown lines followed by the chart.
C6_PdfVariantWritesAllThree ==
    (impl = "cat-stat-analysis" /\ Returned /\ NonDegenerate(contingency_table)
        /\ outcome # "OSError") =>
        /\ outcome = "ok"
        /\ written = {md_filename(cols[1], cols[2]), png_filename(cols[1], cols[2]),
                      pdf_filename(cols[1], cols[2])}
        /\ files[pdf_filename(cols[1], cols[2])] =
              << [cells |-> [k \in 1..Len(report_md) |-> clean_text(report_md[k])],
                  image |-> files[png_filename(cols[1], cols[2])]] >>

\* C7: in the saved chart, every segment of height > 0 of row r and column c
\* carries the row-normalized percentage of cell (r, c),
\* 100 * count[r][c] / row_total[r], in both implementations.
C7_SegmentTextIsOwnRowPercentage ==
    png_filename(cols[1], cols[2]) \in DOMAIN files =>
        LET fig == files[png_filename(cols[1], cols[2])][1]
            t   == Crosstab(df)
        IN  \A i \in 1..NRows(t), j \in 1..NCols(t) :
               RatLess(<<0, 1>>, fig.heights[i][j]) =>
                  fig.texts[i][j] =
                     <<"text", Fmt1f(Rat(100 * t.values[i][j], RowTotal(t, i)))>>

C9_LabelsClassifyResult ==
    Interpreted =>
        /\ chi2_conclusion = "related" <=> PValBelowAlpha(chi2_test.p_val)
        /\ chi2_conclusion \in {"related", "not related"}
        /\ cramers_conclusion = "negligible" <=>
              (RatLeq(<<0, 1>>, cramers_v) /\ RatLess(cramers_v, <<1, 100>>))
        /\ cramers_conclusion = "weak" <=>
              (RatLeq(<<1, 100>>, cramers_v) /\ RatLess(cramers_v, <<9, 100>>))
        /\ cramers_conclusion = "moderate" <=>
              (RatLeq(<<9, 100>>, cramers_v) /\ RatLess(cramers_v, <<25, 100>>))
        /\ cramers_conclusion = "strong" <=>
              (RatLeq(<<25, 100>>, cramers_v) /\ RatLeq(cramers_v, <<1, 1>>))

=============================================================================
